---- MODULE Spec2Model ----
(***************************************************************************)
(* Iris classifier: the Flask serving handler (app.py), the data           *)
(* preparation stage (data_processing.py), the training stage              *)
(* (model_training.py) and the pipeline driver (training_pipeline.py).     *)
(*                                                                         *)
(* Numbers.  A Python float is a record [k, v]: k = "fin" with v the value *)
(* in hundredths, or k in {"nan", "pinf", "ninf"} with v = 0.  Posted text *)
(* is a sequence of one-character strings.                                 *)
(***************************************************************************)
EXTENDS Integers, Sequences, FiniteSets, TLC

VARIABLES
    \* ---- serving process (app.py) ----
    model,          \* the unpickled classifier, module global (line 46)
    IRIS_FEATURES,  \* module global dict (lines 54-79)
    DEFAULTS,       \* module global dict (line 82)
    pc,             \* per request thread: position in index()
    method,         \* request.method
    form,           \* request.form: posted field name -> text
    idx,            \* which of the four _parse_and_validate calls is next
    vals,           \* sl, sw, pl, pw as far as they are bound
    prediction,     \* local of index()
    error,          \* local of index()
    inputs,         \* local of index()
    invoked,        \* the argument of model.predict in this request, or NoCall
    response,       \* what render_template received
    \* ---- training pipeline (training_pipeline.py) ----
    csv,            \* artifacts/raw/data.csv: [cols, rows], or unreadable
    inPlace,        \* pandas build: does df[col] = ... write through to the
                    \* Series object the for loop iterates over
    stage,          \* the stage the run is at
    df,             \* DataProcessing.df
    ho,             \* locals of handle_outliers
    processed,      \* artifacts/processed/*.pkl
    modelPkl,       \* artifacts/models/model.pkl
    cmPng,          \* artifacts/models/confusion_matrix.png
    y_pred,         \* evaluate_model: the predictions for X_test
    loaded,         \* X_train, X_test, y_train, y_test of ModelTraining.run
    raised,         \* the exception that left the run, or None
    started,        \* stages entered in this run, in order
    completed,      \* stages that returned in this run, in order
    written,        \* files written in this run
    rng,            \* RandomState(42).permutation(n), as far as drawn
    run,            \* number of the current run
    prev            \* the split artifacts the previous run left

serveVars == <<model, IRIS_FEATURES, DEFAULTS, pc, method, form, idx, vals,
               prediction, error, inputs, invoked, response>>

pipeVars == <<csv, inPlace, stage, df, ho, processed, modelPkl, cmPng, y_pred, loaded,
              raised, started, completed, written, rng, run, prev>>

vars == <<serveVars, pipeVars>>

-----------------------------------------------------------------------------
(* Bounds *)

NumThreads == 2

\* Rows of the CSV when the SepalWidthCm column is varied.
MaxRows == 8

\* Rows of the CSV when the draw of the split is varied.
MaxSplitRows == 5

\* Runs of the pipeline against the same CSV.
MaxRuns == 2

Threads == 1..NumThreads

-----------------------------------------------------------------------------
(* Floats *)

Fin(v) == [k |-> "fin", v |-> v]
NaN == [k |-> "nan", v |-> 0]
PInf == [k |-> "pinf", v |-> 0]
NInf == [k |-> "ninf", v |-> 0]

\* IEEE-754 "<": every comparison with NaN is false.
FLt(a, b) ==
    CASE a.k = "nan" \/ b.k = "nan" -> FALSE
      [] a.k = "fin" /\ b.k = "fin" -> a.v < b.v
      [] a.k = "ninf" -> b.k # "ninf"
      [] b.k = "pinf" -> a.k # "pinf"
      [] OTHER -> FALSE

FGt(a, b) == FLt(b, a)

FLe(a, b) ==
    CASE a.k = "nan" \/ b.k = "nan" -> FALSE
      [] OTHER -> ~FLt(b, a)

-----------------------------------------------------------------------------
(* float(value): Python's parser on the texts a form can carry.            *)
(* [sign] digits [. digits] | [sign] "nan" | [sign] "inf"; anything else,  *)
(* the empty string included, raises ValueError.                           *)

Digits == {"0", "1", "2", "3", "4", "5", "6", "7", "8", "9"}

DigitVal(c) ==
    CASE c = "0" -> 0 [] c = "1" -> 1 [] c = "2" -> 2 [] c = "3" -> 3
      [] c = "4" -> 4 [] c = "5" -> 5 [] c = "6" -> 6 [] c = "7" -> 7
      [] c = "8" -> 8 [] c = "9" -> 9

RECURSIVE DigitsValue(_)
DigitsValue(s) ==
    IF s = <<>> THEN 0
    ELSE 10 * DigitsValue(SubSeq(s, 1, Len(s) - 1)) + DigitVal(s[Len(s)])

AllDigits(s) == \A i \in 1..Len(s) : s[i] \in Digits

\* The fraction digits as hundredths (the texts used carry at most two).
Hundredths(frac) ==
    CASE Len(frac) = 0 -> 0
      [] Len(frac) = 1 -> 10 * DigitVal(frac[1])
      [] OTHER -> 10 * DigitVal(frac[1]) + DigitVal(frac[2])

ParseFail == [ok |-> FALSE, x |-> NaN]

ParseFloat(text) ==
    LET signed == text # <<>> /\ text[1] \in {"+", "-"}
        neg == signed /\ text[1] = "-"
        body == IF signed THEN SubSeq(text, 2, Len(text)) ELSE text
        dots == {i \in 1..Len(body) : body[i] = "."}
    IN  IF body = <<"n", "a", "n">> THEN [ok |-> TRUE, x |-> NaN]
        ELSE IF body = <<"i", "n", "f">>
             THEN [ok |-> TRUE, x |-> IF neg THEN NInf ELSE PInf]
        ELSE IF Cardinality(dots) > 1 THEN ParseFail
        ELSE LET d == IF dots = {} THEN Len(body) + 1 ELSE CHOOSE i \in dots : TRUE
                 ip == SubSeq(body, 1, d - 1)
                 fp == SubSeq(body, d + 1, Len(body))
             IN  IF AllDigits(ip) /\ AllDigits(fp) /\ Len(ip) + Len(fp) >= 1
                 THEN LET mag == 100 * DigitsValue(ip) + Hundredths(fp)
                      IN  [ok |-> TRUE, x |-> Fin(IF neg THEN 0 - mag ELSE mag)]
                 ELSE ParseFail

-----------------------------------------------------------------------------
(* Configuration (app.py lines 54-82) *)

\* Mutant: the petal length call comes first, the sepal length call third.
NamesPetalLengthFirst == <<"PetalLengthCm", "SepalWidthCm", "SepalLengthCm", "PetalWidthCm">>

\* lines 137-140: the order of the four _parse_and_validate calls
Names == <<"SepalLengthCm", "SepalWidthCm", "PetalLengthCm", "PetalWidthCm">>

NameSet == {Names[i] : i \in 1..4}

FeatureConfig ==
    [SepalLengthCm |-> [label |-> "Sepal Length (cm)", min |-> Fin(430), max |-> Fin(790), mean |-> Fin(584)],
     SepalWidthCm  |-> [label |-> "Sepal Width (cm)",  min |-> Fin(200), max |-> Fin(440), mean |-> Fin(305)],
     PetalLengthCm |-> [label |-> "Petal Length (cm)", min |-> Fin(100), max |-> Fin(690), mean |-> Fin(376)],
     PetalWidthCm  |-> [label |-> "Petal Width (cm)",  min |-> Fin(10),  max |-> Fin(250), mean |-> Fin(120)]]

\* DEFAULTS = {k: v["mean"] for k, v in IRIS_FEATURES.items()}
MeanDefaults(features) == [n \in DOMAIN features |-> features[n].mean]

-----------------------------------------------------------------------------
(* Exceptions and results *)

None == [kind |-> "None"]

NoLabel == "None"

NoCall == <<>>

\* CustomException(f"{conf['label']}: value must be numeric.")
ParseError(conf) ==
    [kind |-> "parse", label |-> conf.label, text |-> "value must be numeric."]

\* CustomException(f"{conf['label']}: {x} is out of range [{min}, {max}].")
RangeError(conf, x) ==
    [kind |-> "range", label |-> conf.label, x |-> x, min |-> conf.min, max |-> conf.max]

\* Mutant: the upper bound is not checked.
OutOfRangeLowOnly(x, conf) == FLt(x, conf.min)

\* Mutant: the bounds are exclusive.
OutOfRangeExclusive(x, conf) == FLe(x, conf.min) \/ FLe(conf.max, x)

\* line 115: x < conf["min"] or x > conf["max"]
OutOfRange(x, conf) == FLt(x, conf.min) \/ FGt(x, conf.max)

\* _parse_and_validate(name, value): [raised, value | exc]
_parse_and_validate(features, name, value) ==
    LET conf == features[name]
        p == ParseFloat(value)
    IN  IF ~p.ok THEN [raised |-> TRUE, exc |-> ParseError(conf), x |-> NaN]
        ELSE IF OutOfRange(p.x, conf)
             THEN [raised |-> TRUE, exc |-> RangeError(conf, p.x), x |-> p.x]
             ELSE [raised |-> FALSE, exc |-> None, x |-> p.x]

\* Mutant: a missing field defaults to "0" instead of "".
FormGetDefaultZero(f, name) == IF name \in DOMAIN f THEN f[name] ELSE <<"0">>

\* request.form.get(name, "")
FormGet(f, name) == IF name \in DOMAIN f THEN f[name] ELSE <<>>

-----------------------------------------------------------------------------
(* The classifier behind model.predict.  The pickle is produced by          *)
(* ModelTraining.train_model: a DecisionTreeClassifier, here a depth-2 tree *)
(* on petal length and petal width.  What predict does with a NaN depends   *)
(* on the installed scikit-learn: it raises ValueError, or routes the NaN   *)
(* down the tree and returns a label.                                       *)

Classes == {"Iris-setosa", "Iris-versicolor", "Iris-virginica"}

Models == {[thrPL |-> 245, thrPW |-> 175, nan |-> p] : p \in {"raise", "label"}}

TreeLabel(m, data) ==
    IF FLe(data[3], Fin(m.thrPL)) THEN "Iris-setosa"
    ELSE IF FLe(data[4], Fin(m.thrPW)) THEN "Iris-versicolor"
    ELSE "Iris-virginica"

\* model.predict(np.array([[sl, sw, pl, pw]]))[0]
Predict(m, data) ==
    IF m.nan = "raise" /\ \E i \in 1..Len(data) : data[i].k = "nan"
    THEN [raised |-> TRUE, label |-> NoLabel,
          exc |-> [kind |-> "predict", cls |-> "ValueError", text |-> "Input X contains NaN."]]
    ELSE [raised |-> FALSE, label |-> TreeLabel(m, data), exc |-> None]

\* Mutant: predict refits a threshold of the shared estimator on its input.
PredictRefits(m, data) ==
    IF data[3].k = "fin" THEN [m EXCEPT !.thrPL = data[3].v] ELSE m

\* The estimator after model.predict(data): predict reads the fitted tree
\* and leaves it as it was.
AfterPredict(m, data) == m

\* The exception a failing logger.info(...) call raises inside the try block.
LogError == [kind |-> "log", cls |-> "Exception", text |-> "logging failed"]

\* except Exception as e: every exception class raised here derives from it.
ExceptionClasses == {"CustomException", "ValueError", "Exception"}

ExcClass(exc) == IF exc.kind \in {"parse", "range"} THEN "CustomException" ELSE exc.cls

Catches(exc) == ExcClass(exc) \in ExceptionClasses

-----------------------------------------------------------------------------
(* Posted texts *)

Absent == <<"<absent>">>

AtMin == << <<"4", ".", "3">>, <<"2", ".", "0">>, <<"1", ".", "0">>, <<"0", ".", "1">> >>
AtMax == << <<"7", ".", "9">>, <<"4", ".", "4">>, <<"6", ".", "9">>, <<"2", ".", "5">> >>
Below == << <<"4", ".", "2">>, <<"1", ".", "9">>, <<"0", ".", "9">>, <<"0", ".", "0">> >>
Above == << <<"8", ".", "0">>, <<"4", ".", "5">>, <<"7", ".", "0">>, <<"2", ".", "6">> >>

TxtNaN == <<"n", "a", "n">>
TxtInf == <<"i", "n", "f">>
TxtNegInf == <<"-", "i", "n", "f">>
TxtAbc == <<"a", "b", "c">>

\* Every kind of text for field i: at and one step beyond each bound,
\* non-numeric, empty, absent, and the three non-finite spellings.
FullOpts ==
    [i \in 1..4 |->
        {AtMin[i], AtMax[i], Below[i], Above[i], TxtAbc, <<>>, Absent, TxtNaN, TxtInf, TxtNegInf}]

\* The few texts concurrent requests draw from.
FewOpts ==
    [i \in 1..4 |->
        IF i = 1 THEN {AtMin[i], Above[i], TxtAbc}
        ELSE IF i = 3 THEN {AtMin[i], AtMax[i]}
        ELSE {AtMax[i]}]

BuildForm(a, b, c, d) ==
    LET g == <<a, b, c, d>>
        present == {i \in 1..4 : g[i] # Absent}
    IN  [n \in {Names[i] : i \in present} |-> g[CHOOSE i \in present : Names[i] = n]]

NoForm == [n \in {} |-> <<>>]

-----------------------------------------------------------------------------
(* index(): one request per thread at a time *)

InitServe ==
    /\ model \in Models
    /\ IRIS_FEATURES = FeatureConfig
    /\ DEFAULTS = MeanDefaults(FeatureConfig)
    /\ pc = [t \in Threads |-> "idle"]
    /\ method = [t \in Threads |-> "GET"]
    /\ form = [t \in Threads |-> NoForm]
    /\ idx = [t \in Threads |-> 1]
    /\ vals = [t \in Threads |-> <<>>]
    /\ prediction = [t \in Threads |-> NoLabel]
    /\ error = [t \in Threads |-> None]
    /\ inputs = [t \in Threads |-> MeanDefaults(FeatureConfig)]
    /\ invoked = [t \in Threads |-> NoCall]
    /\ response = [t \in Threads |-> None]

\* lines 128-135: a request arrives; prediction = None, error = None,
\* inputs = DEFAULTS.copy(); a GET goes straight to render_template.
Receive(t, opts) ==
    /\ pc[t] = "idle"
    /\ \E m \in {"GET", "POST"} :
        /\ method' = [method EXCEPT ![t] = m]
        /\ IF m = "GET"
           THEN form' = [form EXCEPT ![t] = NoForm]
           ELSE \E a \in opts[1], b \in opts[2], c \in opts[3], d \in opts[4] :
                    form' = [form EXCEPT ![t] = BuildForm(a, b, c, d)]
        /\ pc' = [pc EXCEPT ![t] = IF m = "POST" THEN "validate" ELSE "render"]
    /\ idx' = [idx EXCEPT ![t] = 1]
    /\ vals' = [vals EXCEPT ![t] = <<>>]
    /\ prediction' = [prediction EXCEPT ![t] = NoLabel]
    /\ error' = [error EXCEPT ![t] = None]
    /\ inputs' = [inputs EXCEPT ![t] = DEFAULTS]
    /\ invoked' = [invoked EXCEPT ![t] = NoCall]
    /\ response' = [response EXCEPT ![t] = None]
    /\ UNCHANGED <<model, IRIS_FEATURES, DEFAULTS>>
    /\ UNCHANGED pipeVars

\* lines 137-147 and 153-155: the next _parse_and_validate call.  A raise
\* leaves the try block: error = str(e).  After the fourth success the
\* inputs dict is rebuilt from the parsed values.
Validate(t) ==
    /\ pc[t] = "validate"
    /\ LET k == idx[t]
           r == _parse_and_validate(IRIS_FEATURES, Names[k], FormGet(form[t], Names[k]))
       IN  IF r.raised
           THEN /\ IF Catches(r.exc)
                   THEN /\ error' = [error EXCEPT ![t] = r.exc]
                        /\ pc' = [pc EXCEPT ![t] = "render"]
                   ELSE /\ pc' = [pc EXCEPT ![t] = "escaped"]
                        /\ UNCHANGED error
                /\ UNCHANGED <<idx, vals, inputs>>
           ELSE /\ vals' = [vals EXCEPT ![t] = Append(@, r.x)]
                /\ IF k = 4
                   THEN /\ inputs' = [inputs EXCEPT ![t] =
                                [n \in NameSet |-> vals'[t][CHOOSE i \in 1..4 : Names[i] = n]]]
                        /\ pc' = [pc EXCEPT ![t] = "predict"]
                        /\ UNCHANGED idx
                   ELSE /\ idx' = [idx EXCEPT ![t] = k + 1]
                        /\ UNCHANGED <<pc, inputs>>
                /\ UNCHANGED error
    /\ UNCHANGED <<model, IRIS_FEATURES, DEFAULTS, method, form, prediction, invoked, response>>
    /\ UNCHANGED pipeVars

\* lines 149-150: data = np.array([[sl, sw, pl, pw]]); prediction = model.predict(data)[0]
PredictStep(t) ==
    /\ pc[t] = "predict"
    /\ LET data == vals[t]
           r == Predict(model, data)
       IN  /\ invoked' = [invoked EXCEPT ![t] = data]
           /\ model' = AfterPredict(model, data)
           /\ IF r.raised
              THEN /\ IF Catches(r.exc)
                      THEN /\ error' = [error EXCEPT ![t] = r.exc]
                           /\ pc' = [pc EXCEPT ![t] = "render"]
                      ELSE /\ pc' = [pc EXCEPT ![t] = "escaped"]
                           /\ UNCHANGED error
                   /\ UNCHANGED prediction
              ELSE /\ prediction' = [prediction EXCEPT ![t] = r.label]
                   /\ pc' = [pc EXCEPT ![t] = "log"]
                   /\ UNCHANGED error
    /\ UNCHANGED <<IRIS_FEATURES, DEFAULTS, method, form, idx, vals, inputs, response>>
    /\ UNCHANGED pipeVars

\* line 151: logger.info("Prediction successful: %s", str(prediction)) returns.
LogInfo(t) ==
    /\ pc[t] = "log"
    /\ pc' = [pc EXCEPT ![t] = "render"]
    /\ UNCHANGED <<model, IRIS_FEATURES, DEFAULTS, method, form, idx, vals,
                   prediction, error, inputs, invoked, response>>
    /\ UNCHANGED pipeVars

\* line 151 raises (the last statement of the try block, after prediction
\* is bound); lines 153-155 catch it: error = str(e).
LogInfoRaises(t) ==
    /\ pc[t] = "log"
    /\ IF Catches(LogError)
       THEN /\ error' = [error EXCEPT ![t] = LogError]
            /\ pc' = [pc EXCEPT ![t] = "render"]
       ELSE /\ pc' = [pc EXCEPT ![t] = "escaped"]
            /\ UNCHANGED error
    /\ UNCHANGED <<model, IRIS_FEATURES, DEFAULTS, method, form, idx, vals,
                   prediction, inputs, invoked, response>>
    /\ UNCHANGED pipeVars

\* lines 157-163: render_template(prediction=..., error=..., inputs=...)
Render(t) ==
    /\ pc[t] = "render"
    /\ response' = [response EXCEPT ![t] =
            [kind |-> "page", prediction |-> prediction[t], error |-> error[t], inputs |-> inputs[t]]]
    /\ pc' = [pc EXCEPT ![t] = "done"]
    /\ UNCHANGED <<model, IRIS_FEATURES, DEFAULTS, method, form, idx, vals,
                   prediction, error, inputs, invoked>>
    /\ UNCHANGED pipeVars

\* index() has returned (or its exception reached the framework): the
\* frame's locals are gone and the thread waits for the next request.
Finish(t) ==
    /\ pc[t] \in {"done", "escaped"}
    /\ pc' = [pc EXCEPT ![t] = "idle"]
    /\ method' = [method EXCEPT ![t] = "GET"]
    /\ form' = [form EXCEPT ![t] = NoForm]
    /\ idx' = [idx EXCEPT ![t] = 1]
    /\ vals' = [vals EXCEPT ![t] = <<>>]
    /\ prediction' = [prediction EXCEPT ![t] = NoLabel]
    /\ error' = [error EXCEPT ![t] = None]
    /\ inputs' = [inputs EXCEPT ![t] = DEFAULTS]
    /\ invoked' = [invoked EXCEPT ![t] = NoCall]
    /\ response' = [response EXCEPT ![t] = None]
    /\ UNCHANGED <<model, IRIS_FEATURES, DEFAULTS>>
    /\ UNCHANGED pipeVars

\* One request at a time, every kind of posted text.
Next ==
    \/ Receive(1, FullOpts)
    \/ Validate(1)
    \/ PredictStep(1)
    \/ LogInfo(1)
    \/ LogInfoRaises(1)
    \/ Render(1)
    \/ Finish(1)

\* Concurrent requests (threaded server), a few posted texts.
NextConc ==
    \/ \E t \in Threads : Receive(t, FewOpts)
    \/ \E t \in Threads : Validate(t)
    \/ \E t \in Threads : PredictStep(t)
    \/ \E t \in Threads : LogInfo(t)
    \/ \E t \in Threads : LogInfoRaises(t)
    \/ \E t \in Threads : Render(t)
    \/ \E t \in Threads : Finish(t)

-----------------------------------------------------------------------------
(* Tables.  A cell of a numeric column is an integer counting eighths, so   *)
(* that quartiles (multiples of 1/4 between integer values), the median and *)
(* Q1 - 1.5 * IQR are exact, as they are in binary floating point.          *)

FeatureCols == {"SepalLengthCm", "SepalWidthCm", "PetalLengthCm", "PetalWidthCm"}

AllCols == FeatureCols \cup {"Species"}

ClassOf(j) ==
    CASE j % 3 = 1 -> "Iris-setosa" [] j % 3 = 2 -> "Iris-versicolor" [] OTHER -> "Iris-virginica"

\* Row j of the CSV with SepalWidthCm = w (a whole number of units).
Row(j, w) ==
    [index |-> j, SepalLengthCm |-> 8 * (4 + j), SepalWidthCm |-> 8 * w,
     PetalLengthCm |-> 8 * j, PetalWidthCm |-> 8, Species |-> ClassOf(j)]

Unreadable == [cols |-> {}, rows |-> <<>>, readable |-> FALSE]

Table(cols, ws) ==
    [cols |-> cols, rows |-> [j \in 1..Len(ws) |-> Row(j, ws[j])], readable |-> TRUE]

Column(d, c) == [j \in 1..Len(d) |-> d[j][c]]

RECURSIVE Insert(_, _)
Insert(x, s) ==
    IF s = <<>> THEN <<x>>
    ELSE IF x <= Head(s) THEN <<x>> \o s
    ELSE <<Head(s)>> \o Insert(x, Tail(s))

RECURSIVE Sorted(_)
Sorted(s) == IF s = <<>> THEN <<>> ELSE Insert(Head(s), Sorted(Tail(s)))

\* Series.quantile(q) with q = num/4, linear interpolation between the
\* order statistics around position (n - 1) * q; NaN (here 0) when empty.
Quantile(col, num) ==
    LET s == Sorted(col)
        n == Len(s)
        lo == ((n - 1) * num) \div 4
        rem == ((n - 1) * num) % 4
    IN  IF n = 0 THEN 0
        ELSE IF rem = 0 THEN s[lo + 1]
        ELSE s[lo + 1] + ((s[lo + 2] - s[lo + 1]) * rem) \div 4

\* np.median(column)
Median(col) ==
    LET s == Sorted(col)
        n == Len(s)
    IN  IF n = 0 THEN 0
        ELSE IF n % 2 = 1 THEN s[(n + 1) \div 2]
        ELSE (s[n \div 2] + s[n \div 2 + 1]) \div 2

\* lines 135-146: Q1, Q3, IQR, the two bounds and the median
OutlierStats(col) ==
    LET q1 == Quantile(col, 1)
        q3 == Quantile(col, 3)
        iqr == q3 - q1
    IN  [Q1 |-> q1, Q3 |-> q3,
         Lower_value |-> q1 - (3 * iqr) \div 2,
         Upper_value |-> q3 + (3 * iqr) \div 2,
         sepal_median |-> Median(col)]

\* Mutant: only values above the upper bound are replaced.
IsOutlierHighOnly(i, st) == i > st.Upper_value

\* line 151: i > Upper_value or i < Lower_value
IsOutlier(i, st) == i > st.Upper_value \/ i < st.Lower_value

\* Mutant: the value is replaced in every numeric column of the frame.
ReplaceAllColumns(d, c, i, m) ==
    [j \in 1..Len(d) |->
        [k \in DOMAIN d[j] |-> IF k \in FeatureCols /\ d[j][k] = i THEN m ELSE d[j][k]]]

\* line 152: self.df[column] = self.df[column].replace(i, sepal_median)
Replace(d, c, i, m) ==
    [j \in 1..Len(d) |-> IF d[j][c] = i THEN [d[j] EXCEPT ![c] = m] ELSE d[j]]

-----------------------------------------------------------------------------
(* train_test_split(X, Y, test_size=0.2, random_state=42) *)

RECURSIVE FloorLog2(_)
FloorLog2(k) == IF k <= 1 THEN 0 ELSE 1 + FloorLog2(k \div 2)

RECURSIVE Pow2(_)
Pow2(e) == IF e = 0 THEN 1 ELSE 2 * Pow2(e - 1)

\* ceil(0.2 * n) in double precision.  The double 0.2 is
\* (2^54 + 1) / (5 * 2^54), so the exact product is n/5 + n/(5 * 2^54).
\* When 5 divides n, with k = n/5 in [2^e, 2^(e+1)), the excess k/2^54 is
\* rounded away unless it reaches half an ulp of k, 2^(e-53), that is
\* unless k >= 2^(e+1); otherwise the tiny excess does not move the ceiling.
CeilFifth(n) ==
    LET k == n \div 5
        roundsUp == k >= 1 /\ k >= Pow2(FloorLog2(k) + 1)
    IN  IF n % 5 = 0 THEN (IF roundsUp THEN k + 1 ELSE k) ELSE k + 1

\* Mutant: test_size = 0.4.
NTestTwoFifths(n) == (2 * n + 4) \div 5

\* n_test = ceil(test_size * n_samples)
NTest(n) == CeilFifth(n)

Perms(n) == {p \in [1..n -> 1..n] : \A a, b \in 1..n : p[a] = p[b] => a = b}

\* Mutant: random_state=None, every call draws afresh.
UnseededDraws(memo, n) == Perms(n)

\* rng.permutation(n) of RandomState(42): one fixed permutation per n, the
\* same in every run; which one is left open until it is first drawn.
SeededDraws(memo, n) == IF n \in DOMAIN memo THEN {memo[n]} ELSE Perms(n)

XRow(r) ==
    [index |-> r.index, SepalLengthCm |-> r.SepalLengthCm, SepalWidthCm |-> r.SepalWidthCm,
     PetalLengthCm |-> r.PetalLengthCm, PetalWidthCm |-> r.PetalWidthCm]

YRow(r) == [index |-> r.index, Species |-> r.Species]

\* The four outputs for permutation p: test = p[:n_test], train = the rest.
SplitOf(d, p) ==
    LET n == Len(d)
        nt == NTest(n)
    IN  [X_train |-> [j \in 1..(n - nt) |-> XRow(d[p[nt + j]])],
         X_test  |-> [j \in 1..nt |-> XRow(d[p[j]])],
         y_train |-> [j \in 1..(n - nt) |-> YRow(d[p[nt + j]])],
         y_test  |-> [j \in 1..nt |-> YRow(d[p[j]])]]

\* train_test_split raises ValueError when either side would be empty.
SplitRaises(d) == Len(d) = 0 \/ Len(d) - NTest(Len(d)) <= 0 \/ NTest(Len(d)) <= 0

-----------------------------------------------------------------------------
(* Files and exceptions of the pipeline *)

NoFile == [exists |-> FALSE, data |-> <<>>]

File(x) == [exists |-> TRUE, data |-> x]

\* joblib.dump order in split_data, lines 196-199
DumpOrder == <<"X_train", "X_test", "y_train", "y_test">>

NoFiles == [f \in {DumpOrder[i] : i \in 1..4} |-> NoFile]

\* raise CustomException(message, e)
Wrapped(message) == [kind |-> "pipeline", cls |-> "CustomException", text |-> message]

StageOrder ==
    <<"load_data", "handle_outliers", "split_data", "mt_load_data", "train_model", "evaluate_model">>

Following(st) ==
    IF st = "evaluate_model" THEN "finished"
    ELSE StageOrder[1 + CHOOSE i \in 1..5 : StageOrder[i] = st]

\* Mutant: the failure is logged and the run goes on with the next stage.
OnRaiseContinue(st) == Following(st)

\* No caller of a stage catches: the exception leaves run() and __main__.
OnRaise(st) == "aborted"

NoStats == [Q1 |-> 0, Q3 |-> 0, Lower_value |-> 0, Upper_value |-> 0, sepal_median |-> 0]

NoLoop == [st |-> NoStats, pos |-> 0, series |-> <<>>]

-----------------------------------------------------------------------------
(* The pipeline run: DataProcessing.run() then ModelTraining.run() *)

Enter(st) == started' = Append(started, st)

Return(st) == completed' = Append(completed, st)

\* A stage's except clause: log, raise CustomException(message, e).
Raise(st, message) ==
    /\ raised' = Wrapped(message)
    /\ stage' = OnRaise(st)

\* DataProcessing.load_data, lines 100-111
LoadData ==
    /\ stage = "load_data"
    /\ Enter("load_data")
    /\ IF csv.readable
       THEN /\ df' = csv.rows
            /\ Return("load_data")
            /\ stage' = "handle_outliers"
            /\ UNCHANGED raised
       ELSE /\ Raise("load_data", "Failed to read data")
            /\ UNCHANGED <<df, completed>>
    /\ UNCHANGED <<csv, inPlace, ho, processed, modelPkl, cmPng, y_pred, loaded, written, rng, run, prev>>
    /\ UNCHANGED serveVars

\* DataProcessing.handle_outliers("SepalWidthCm"), lines 130-149: the
\* statistics, and the Series the for loop will iterate over.
HandleOutliersBegin ==
    /\ stage = "handle_outliers"
    /\ Enter("handle_outliers")
    /\ IF "SepalWidthCm" \in csv.cols
       THEN /\ ho' = [st |-> OutlierStats(Column(df, "SepalWidthCm")), pos |-> 1,
                      series |-> Column(df, "SepalWidthCm")]
            /\ stage' = "ho_loop"
            /\ UNCHANGED raised
       ELSE /\ Raise("handle_outliers", "Failed to handle outliers")
            /\ UNCHANGED ho
    /\ UNCHANGED <<csv, inPlace, df, processed, modelPkl, cmPng, y_pred, loaded, completed,
                   written, rng, run, prev>>
    /\ UNCHANGED serveVars

\* lines 149-152: one iteration.  The value read is the cell as it is now
\* when the assignment writes through to the iterated Series, and the cell
\* as it was when the loop began otherwise.
HandleOutliersIter ==
    /\ stage = "ho_loop"
    /\ ho.pos <= Len(ho.series)
    /\ LET i == IF inPlace THEN df[ho.pos].SepalWidthCm ELSE ho.series[ho.pos]
       IN  df' = IF IsOutlier(i, ho.st)
                 THEN Replace(df, "SepalWidthCm", i, ho.st.sepal_median)
                 ELSE df
    /\ ho' = [ho EXCEPT !.pos = @ + 1]
    /\ UNCHANGED <<csv, inPlace, stage, processed, modelPkl, cmPng, y_pred, loaded, raised,
                   started, completed, written, rng, run, prev>>
    /\ UNCHANGED serveVars

\* line 155: the loop is exhausted, handle_outliers returns.
HandleOutliersEnd ==
    /\ stage = "ho_loop"
    /\ ho.pos > Len(ho.series)
    /\ Return("handle_outliers")
    /\ stage' = "split_data"
    /\ UNCHANGED <<csv, inPlace, df, ho, processed, modelPkl, cmPng, y_pred, loaded, raised,
                   started, written, rng, run, prev>>
    /\ UNCHANGED serveVars

SplitCanRun == AllCols \subseteq csv.cols /\ ~SplitRaises(df)

\* DataProcessing.split_data, lines 182-209, a column missing or a side
\* of the split empty: KeyError / ValueError, wrapped.
SplitDataRaises ==
    /\ stage = "split_data"
    /\ ~SplitCanRun
    /\ Enter("split_data")
    /\ Raise("split_data", "Failed to split data")
    /\ UNCHANGED <<csv, inPlace, df, ho, processed, modelPkl, cmPng, y_pred, loaded, completed,
                   written, rng, run, prev>>
    /\ UNCHANGED serveVars

\* lines 184-202: the split and the four dumps.
SplitData ==
    /\ stage = "split_data"
    /\ SplitCanRun
    /\ Enter("split_data")
    /\ \E p \in SeededDraws(rng, Len(df)) :
        /\ rng' = [n \in DOMAIN rng \cup {Len(df)} |-> IF n = Len(df) THEN p ELSE rng[n]]
        /\ processed' = [f \in DOMAIN processed |-> File(SplitOf(df, p)[f])]
    /\ written' = written \cup {DumpOrder[i] : i \in 1..4}
    /\ Return("split_data")
    /\ stage' = "mt_load_data"
    /\ UNCHANGED <<csv, inPlace, df, ho, modelPkl, cmPng, y_pred, loaded, raised, run, prev>>
    /\ UNCHANGED serveVars

\* lines 196-199 and 204-209: a joblib.dump fails after k files are written.
SplitDataDumpFails ==
    /\ stage = "split_data"
    /\ SplitCanRun
    /\ Enter("split_data")
    /\ \E p \in SeededDraws(rng, Len(df)), k \in 0..3 :
        /\ rng' = [n \in DOMAIN rng \cup {Len(df)} |-> IF n = Len(df) THEN p ELSE rng[n]]
        /\ processed' = [f \in DOMAIN processed |->
                IF \E i \in 1..k : DumpOrder[i] = f THEN File(SplitOf(df, p)[f]) ELSE processed[f]]
        /\ written' = written \cup {DumpOrder[i] : i \in 1..k}
    /\ Raise("split_data", "Failed to split data")
    /\ UNCHANGED <<csv, inPlace, df, ho, modelPkl, cmPng, y_pred, loaded, completed, run, prev>>
    /\ UNCHANGED serveVars

\* ModelTraining.load_data, lines 110-118
MTLoadData ==
    /\ stage = "mt_load_data"
    /\ Enter("mt_load_data")
    /\ IF \A f \in DOMAIN processed : processed[f].exists
       THEN /\ loaded' = [f \in DOMAIN processed |-> processed[f].data]
            /\ Return("mt_load_data")
            /\ stage' = "train_model"
            /\ UNCHANGED raised
       ELSE /\ Raise("mt_load_data", "Failed to load processed data")
            /\ UNCHANGED <<loaded, completed>>
    /\ UNCHANGED <<csv, inPlace, df, ho, processed, modelPkl, cmPng, y_pred, written, rng, run, prev>>
    /\ UNCHANGED serveVars

\* lines 120-122: a joblib.load fails.
MTLoadDataFails ==
    /\ stage = "mt_load_data"
    /\ Enter("mt_load_data")
    /\ Raise("mt_load_data", "Failed to load processed data")
    /\ UNCHANGED <<csv, inPlace, df, ho, processed, modelPkl, cmPng, y_pred, loaded, completed,
                   written, rng, run, prev>>
    /\ UNCHANGED serveVars

\* ModelTraining.train_model, lines 143-150: fit, then dump model.pkl.
TrainModel ==
    /\ stage = "train_model"
    /\ Enter("train_model")
    /\ modelPkl' = File([X |-> loaded.X_train, y |-> loaded.y_train])
    /\ written' = written \cup {"model.pkl"}
    /\ Return("train_model")
    /\ stage' = "evaluate_model"
    /\ UNCHANGED <<csv, inPlace, df, ho, processed, cmPng, y_pred, loaded, raised, rng, run, prev>>
    /\ UNCHANGED serveVars

\* lines 152-154: fit or dump fails; model.pkl is not written.
TrainModelFails ==
    /\ stage = "train_model"
    /\ Enter("train_model")
    /\ Raise("train_model", "Failed to train model")
    /\ UNCHANGED <<csv, inPlace, df, ho, processed, modelPkl, cmPng, y_pred, loaded, completed,
                   written, rng, run, prev>>
    /\ UNCHANGED serveVars

\* The fitted tree predicts one of the classes it was trained on
\* (classes_); the splits it learns are not modelled, so which of them it
\* predicts for a test row is left open.
Predictions(y_train, X_test) ==
    [1..Len(X_test) -> {y_train[k].Species : k \in 1..Len(y_train)}]

\* Position of a label in sorted (string) order.
ClassRank(c) ==
    CASE c = "Iris-setosa" -> 1 [] c = "Iris-versicolor" -> 2 [] c = "Iris-virginica" -> 3

\* np.unique: the distinct labels of ys, sorted.
Unique(ys) ==
    LET S == {ys[k] : k \in 1..Len(ys)}
    IN  [i \in 1..Cardinality(S) |->
            CHOOSE c \in S : Cardinality({b \in S : ClassRank(b) < ClassRank(c)}) = i - 1]

\* confusion_matrix(y_true, y_pred) with labels=None: the labels are the
\* sorted distinct values of both arguments together; entry (i, j) counts
\* the samples of true label i predicted as label j.
confusion_matrix(y_true, predicted) ==
    LET labels == Unique(y_true \o predicted)
    IN  [i \in 1..Len(labels) |-> [j \in 1..Len(labels) |->
            Cardinality({k \in 1..Len(y_true) :
                            y_true[k] = labels[i] /\ predicted[k] = labels[j]})]]

\* ModelTraining.evaluate_model, lines 175-213: the test rows are predicted,
\* metrics are logged, and the heat map of the confusion matrix is saved
\* with the distinct test labels as tick labels on both axes.
EvaluateModel ==
    /\ stage = "evaluate_model"
    /\ Enter("evaluate_model")
    /\ y_pred' \in Predictions(loaded.y_train, loaded.X_test)
    /\ LET y_test == [k \in 1..Len(loaded.y_test) |-> loaded.y_test[k].Species]
       IN  cmPng' = File([cm |-> confusion_matrix(y_test, y_pred'),
                          xticklabels |-> Unique(y_test),
                          yticklabels |-> Unique(y_test)])
    /\ written' = written \cup {"confusion_matrix.png"}
    /\ Return("evaluate_model")
    /\ stage' = "finished"
    /\ UNCHANGED <<csv, inPlace, df, ho, processed, modelPkl, loaded, raised, rng, run, prev>>
    /\ UNCHANGED serveVars

\* lines 215-217: prediction, a metric or the plot fails.
EvaluateModelFails ==
    /\ stage = "evaluate_model"
    /\ Enter("evaluate_model")
    /\ Raise("evaluate_model", "Failed to evaluate model")
    /\ UNCHANGED <<csv, inPlace, df, ho, processed, modelPkl, cmPng, y_pred, loaded, completed,
                   written, rng, run, prev>>
    /\ UNCHANGED serveVars

\* The process has ended; python pipeline/training_pipeline.py is started
\* again on the same CSV.  Files stay on disk, everything in memory is new.
Rerun ==
    /\ stage \in {"finished", "aborted"}
    /\ run < MaxRuns
    /\ run' = run + 1
    /\ prev' = [split |-> \E i \in 1..Len(completed) : completed[i] = "split_data",
                files |-> processed]
    /\ stage' = "load_data"
    /\ df' = <<>>
    /\ ho' = NoLoop
    /\ loaded' = NoFiles
    /\ raised' = None
    /\ started' = <<>>
    /\ completed' = <<>>
    /\ written' = {}
    /\ y_pred' = <<>>
    /\ UNCHANGED <<csv, inPlace, processed, modelPkl, cmPng, rng>>
    /\ UNCHANGED serveVars

InitPipe(csvs, builds) ==
    /\ csv \in csvs
    /\ inPlace \in builds
    /\ stage = "load_data"
    /\ df = <<>>
    /\ ho = NoLoop
    /\ processed = NoFiles
    /\ modelPkl = NoFile
    /\ cmPng = NoFile
    /\ y_pred = <<>>
    /\ loaded = NoFiles
    /\ raised = None
    /\ started = <<>>
    /\ completed = <<>>
    /\ written = {}
    /\ rng = [n \in {} |-> <<>>]
    /\ run = 1
    /\ prev = [split |-> FALSE, files |-> NoFiles]

\* SepalWidthCm cells, in whole units.
CellValues == {0, 1, 2}

RECURSIVE SeqsUpTo(_, _)
SeqsUpTo(S, n) ==
    IF n = 0 THEN {<<>>}
    ELSE LET shorter == SeqsUpTo(S, n - 1)
         IN  shorter \cup {Append(q, x) : q \in {r \in shorter : Len(r) = n - 1}, x \in S}

\* Every SepalWidthCm column of up to MaxRows rows.
OutlierCsvs == {Table(AllCols, ws) : ws \in SeqsUpTo(CellValues, MaxRows)}

\* Every row count up to MaxSplitRows with one high SepalWidthCm cell, with
\* and without the columns the stages need, and a file that cannot be read.
PipeCsvs ==
    {Unreadable}
    \cup {Table(cols, [j \in 1..n |-> IF j = n THEN 9 ELSE 1]) :
            n \in 0..MaxSplitRows,
            cols \in {AllCols, AllCols \ {"SepalWidthCm"}, AllCols \ {"Species"}}}

\* The serving process is not running.
ServeIdle == InitServe /\ model.nan = "raise"

\* The pipeline is not running.
PipeIdle == InitPipe({Unreadable}, {FALSE})

\* load_data and handle_outliers on every SepalWidthCm column.
NextOutlier ==
    \/ LoadData
    \/ HandleOutliersBegin
    \/ HandleOutliersIter
    \/ HandleOutliersEnd

InitOutlier == ServeIdle /\ InitPipe(OutlierCsvs, BOOLEAN)

SpecOutlier == InitOutlier /\ [][NextOutlier]_vars

\* Whole runs of the pipeline.
NextPipe ==
    \/ LoadData
    \/ HandleOutliersBegin
    \/ HandleOutliersIter
    \/ HandleOutliersEnd
    \/ SplitDataRaises
    \/ SplitData
    \/ SplitDataDumpFails
    \/ MTLoadData
    \/ MTLoadDataFails
    \/ TrainModel
    \/ TrainModelFails
    \/ EvaluateModel
    \/ EvaluateModelFails
    \/ Rerun

InitRuns == ServeIdle /\ InitPipe(PipeCsvs, BOOLEAN)

SpecPipe == InitRuns /\ [][NextPipe]_vars

\* The serving process starts; the pipeline is not running.
Init == InitServe /\ PipeIdle

Spec == Init /\ [][Next]_vars

SpecConc == Init /\ [][NextConc]_vars

-----------------------------------------------------------------------------
(* Claims about the serving handler *)

\* The parse result of field i of a posted form.
Parsed(f, i) == ParseFloat(FormGet(f, Names[i]))

\* Field i fails parsing, or parses and fails the range comparison.
FieldFails(f, i) ==
    LET p == Parsed(f, i)
        conf == FeatureConfig[Names[i]]
    IN  ~p.ok \/ FLt(p.x, conf.min) \/ FLt(conf.max, p.x)

ValidationFails(f) == \E i \in 1..4 : FieldFails(f, i)

\* C1: a POST request with a field that fails parsing or range checking
\* never reaches model.predict, its exception never leaves index(), and the
\* rendered page carries an error and no prediction.
C1_FailedValidationNeverPredicts ==
    \A t \in Threads :
        (method[t] = "POST" /\ pc[t] # "idle" /\ ValidationFails(form[t])) =>
            /\ pc[t] \notin {"predict", "log", "escaped"}
            /\ invoked[t] = NoCall
            /\ prediction[t] = NoLabel
            /\ pc[t] = "render" => error[t].kind \in {"parse", "range"}
            /\ pc[t] = "done" =>
                /\ response[t].error.kind \in {"parse", "range"}
                /\ response[t].prediction = NoLabel

C1_Witness ==
    \E t \in Threads :
        /\ pc[t] = "done" /\ method[t] = "POST"
        /\ ~Parsed(form[t], 1).ok
        /\ response[t].error.kind = "parse"
        /\ invoked[t] = NoCall

\* C2: whenever model.predict is invoked its argument holds the four parsed
\* fields in the configured order, each within its inclusive bounds
\* (violated: "nan" passes the range comparison).
C2_PredictArgsInRange ==
    \A t \in Threads :
        invoked[t] # NoCall =>
            /\ Len(invoked[t]) = 4
            /\ \A i \in 1..4 :
                /\ invoked[t][i] = Parsed(form[t], i).x
                /\ FLe(FeatureConfig[Names[i]].min, invoked[t][i])
                /\ FLe(invoked[t][i], FeatureConfig[Names[i]].max)

AtBound(i, x) ==
    x.k = "fin" /\ x.v \in {FeatureConfig[Names[i]].min.v, FeatureConfig[Names[i]].max.v}

Outside(i, x) ==
    \/ x.k \in {"pinf", "ninf"}
    \/ x.k = "fin" /\ (x.v < FeatureConfig[Names[i]].min.v \/ x.v > FeatureConfig[Names[i]].max.v)

\* C3: bounds are inclusive.  Every field validated so far was returned as
\* parsed and is not outside its bounds; the field validation stopped at is
\* never one at a bound, and when it is below the minimum or above the
\* maximum the error is the range error carrying that feature's label; a
\* request with all four fields at a bound reaches the model.
C3_BoundsInclusive ==
    \A t \in Threads :
        (method[t] = "POST" /\ pc[t] # "idle") =>
            LET n == Len(vals[t])
            IN  /\ \A i \in 1..n :
                    /\ vals[t][i] = Parsed(form[t], i).x
                    /\ ~Outside(i, vals[t][i])
                /\ (pc[t] \in {"render", "done"} /\ n < 4) =>
                    LET p == Parsed(form[t], n + 1)
                    IN  /\ p.ok => ~AtBound(n + 1, p.x)
                        /\ (p.ok /\ Outside(n + 1, p.x)) =>
                            /\ error[t].kind = "range"
                            /\ error[t].label = FeatureConfig[Names[n + 1]].label
                            /\ error[t].x = p.x
                /\ (pc[t] \in {"render", "done"}
                      /\ \A i \in 1..4 : Parsed(form[t], i).ok /\ AtBound(i, Parsed(form[t], i).x)) =>
                    invoked[t] = vals[t] /\ n = 4

C3_Witness ==
    \E t \in Threads :
        /\ pc[t] = "done"
        /\ invoked[t] = <<Fin(790), Fin(200), Fin(690), Fin(250)>>
        /\ response[t].prediction \in Classes
        /\ response[t].error = None

\* Text that is not a number: letters, or the empty string a missing field
\* is read as.
NonNumeric(f, i) == FormGet(f, Names[i]) \in {TxtAbc, <<>>} \/ Names[i] \notin DOMAIN f

\* C4 as claimed: any non-numeric or missing field makes the outcome a parse
\* error, whatever the other fields hold.
C4_AnyNonNumericGivesParseError ==
    \A t \in Threads :
        (method[t] = "POST" /\ pc[t] = "done" /\ \E i \in 1..4 : NonNumeric(form[t], i)) =>
            /\ response[t].error.kind = "parse"
            /\ invoked[t] = NoCall

\* C4 amended: any non-numeric or missing field blocks the prediction and
\* the outcome is an error; it is the parse error of the first such field
\* unless an earlier field, in the fixed order, parses and is out of range,
\* and then it is that earlier field's range error.
C4_NonNumericBlocksPrediction ==
    \A t \in Threads :
        (method[t] = "POST" /\ pc[t] = "done" /\ \E i \in 1..4 : NonNumeric(form[t], i)) =>
            LET f == form[t]
                i0 == CHOOSE i \in 1..4 :
                        NonNumeric(f, i) /\ \A j \in 1..(i - 1) : ~NonNumeric(f, j)
                early == {j \in 1..(i0 - 1) : FieldFails(f, j)}
            IN  /\ invoked[t] = NoCall
                /\ response[t].prediction = NoLabel
                /\ early = {} =>
                    response[t].error = ParseError(FeatureConfig[Names[i0]])
                /\ early # {} =>
                    /\ response[t].error.kind = "range"
                    /\ \E j \in early :
                        /\ response[t].error.label = FeatureConfig[Names[j]].label
                        /\ \A h \in early : j <= h

C4_Witness ==
    \E t \in Threads :
        /\ pc[t] = "done" /\ method[t] = "POST"
        /\ FieldFails(form[t], 1) /\ ~NonNumeric(form[t], 1)
        /\ NonNumeric(form[t], 2)
        /\ response[t].error.kind = "range"

\* C5: after a POST exactly one of prediction and error is set (violated:
\* a raise at line 151 leaves the label bound and sets the error too).
C5_ExactlyOneOfPredictionAndError ==
    \A t \in Threads :
        (method[t] = "POST" /\ pc[t] = "done") =>
            \/ response[t].prediction \in Classes /\ response[t].error = None
            \/ response[t].prediction = NoLabel /\ response[t].error # None

-----------------------------------------------------------------------------
(* Claims about concurrent requests *)

\* index() run alone on (method, form) against the start-up configuration.
AloneOutcomes(m, f, mdl) ==
    LET defaults == MeanDefaults(FeatureConfig)
        r(i) == _parse_and_validate(FeatureConfig, Names[i], FormGet(f, Names[i]))
        bad == {i \in 1..4 : r(i).raised}
        page(p, e, inp) == [kind |-> "page", prediction |-> p, error |-> e, inputs |-> inp]
    IN  IF m = "GET" THEN {page(NoLabel, None, defaults)}
        ELSE IF bad # {}
        THEN {page(NoLabel, r(CHOOSE i \in bad : \A j \in bad : i <= j).exc, defaults)}
        ELSE LET data == [i \in 1..4 |-> r(i).x]
                 inp == [n \in NameSet |-> data[CHOOSE i \in 1..4 : Names[i] = n]]
                 q == Predict(mdl, data)
             IN  IF q.raised THEN {page(NoLabel, q.exc, inp)}
                 ELSE {page(q.label, None, inp), page(q.label, LogError, inp)}

SharedUnchanged ==
    /\ model' = model
    /\ IRIS_FEATURES' = IRIS_FEATURES
    /\ DEFAULTS' = DEFAULTS

OutcomeAsAlone ==
    /\ IRIS_FEATURES = FeatureConfig
    /\ DEFAULTS = MeanDefaults(FeatureConfig)
    /\ \A t \in Threads :
        pc[t] = "done" => response[t] \in AloneOutcomes(method[t], form[t], model)

\* C9: no step of any request changes model, IRIS_FEATURES or DEFAULTS, and
\* under every interleaving each rendered response is one the request
\* yields when it runs alone.
C9_RequestsIsolated == [][SharedUnchanged]_vars /\ []OutcomeAsAlone

C9_Witness ==
    \E t1, t2 \in Threads :
        /\ t1 # t2
        /\ pc[t1] = "done" /\ response[t1].error.kind = "range"
        /\ pc[t2] = "log" /\ prediction[t2] \in Classes

-----------------------------------------------------------------------------
(* Claims about the pipeline *)

Done(st) == \E i \in 1..Len(completed) : completed[i] = st

\* The SepalWidthCm column as the CSV holds it.
OrigColumn == Column(csv.rows, "SepalWidthCm")

\* C6: after handle_outliers returns, every cell of the column lies within
\* [Q1 - 1.5 IQR, Q3 + 1.5 IQR] of the column as it was before the call,
\* and every cell that was strictly outside holds the median of the column
\* as it was before the call.
C6_OutliersReplacedByOriginalMedian ==
    Done("handle_outliers") =>
        LET orig == OrigColumn
            q1 == Quantile(orig, 1)
            q3 == Quantile(orig, 3)
            lower == q1 - (3 * (q3 - q1)) \div 2
            upper == q3 + (3 * (q3 - q1)) \div 2
        IN  /\ Len(df) = Len(orig)
            /\ \A j \in 1..Len(df) :
                /\ lower <= df[j].SepalWidthCm
                /\ df[j].SepalWidthCm <= upper
                /\ (orig[j] < lower \/ orig[j] > upper) =>
                    df[j].SepalWidthCm = Median(orig)

C6_Witness ==
    /\ Done("handle_outliers")
    /\ \E j, k, h \in 1..Len(df) :
        /\ j # h
        /\ OrigColumn[j] < ho.st.Lower_value
        /\ OrigColumn[h] = OrigColumn[j]
        /\ OrigColumn[k] > ho.st.Upper_value
        /\ df[j].SepalWidthCm = ho.st.sepal_median
        /\ df[k].SepalWidthCm = ho.st.sepal_median

Indexes(rows) == {rows[j].index : j \in 1..Len(rows)}

\* C7: when split_data succeeds on N rows, train and test partition the
\* rows, the features and the label of a row are on the same side, the
\* test side differs from 0.2 * N by less than one row and the train side
\* holds the rest.
C7_SplitIsPartition ==
    Done("split_data") =>
        LET n == Len(df)
            Xtr == processed.X_train.data
            Xte == processed.X_test.data
            ytr == processed.y_train.data
            yte == processed.y_test.data
            byIndex(ix) == df[CHOOSE j \in 1..n : df[j].index = ix]
        IN  /\ \A f \in DOMAIN processed : processed[f].exists
            /\ Indexes(Xtr) \cup Indexes(Xte) = Indexes(df)
            /\ Indexes(Xtr) \cap Indexes(Xte) = {}
            /\ Cardinality(Indexes(Xtr)) = Len(Xtr)
            /\ Cardinality(Indexes(Xte)) = Len(Xte)
            /\ Len(ytr) = Len(Xtr) /\ Len(yte) = Len(Xte)
            /\ \A j \in 1..Len(Xtr) :
                /\ Xtr[j] = XRow(byIndex(Xtr[j].index))
                /\ ytr[j] = YRow(byIndex(Xtr[j].index))
            /\ \A j \in 1..Len(Xte) :
                /\ Xte[j] = XRow(byIndex(Xte[j].index))
                /\ yte[j] = YRow(byIndex(Xte[j].index))
            /\ 5 * Len(Xte) - n < 5
            /\ n - 5 * Len(Xte) < 5
            /\ Len(Xtr) = n - Len(Xte)

C7_Witness ==
    /\ Done("split_data")
    /\ Len(df) = 4
    /\ Len(processed.X_test.data) = 1
    /\ Len(processed.X_train.data) = 3

IsPrefix(a, b) == Len(a) <= Len(b) /\ \A i \in 1..Len(a) : a[i] = b[i]

\* C8: the stages of a run are entered in the fixed order, each after the
\* one before it has returned; a failing stage raises the wrapped
\* exception, the run stops there with no stage entered afterwards or
\* entered twice, and model.pkl is written only in a run whose data
\* processing returned.
C8_StagesInOrderAbortOnFailure ==
    /\ IsPrefix(started, StageOrder)
    /\ IsPrefix(completed, started)
    /\ Len(started) <= Len(completed) + 1
    /\ raised # None =>
        /\ raised.cls = "CustomException"
        /\ stage = "aborted"
        /\ Len(started) = Len(completed) + 1
    /\ stage = "aborted" => raised # None
    /\ stage = "finished" => completed = StageOrder
    /\ (written \cap {"X_train", "X_test", "y_train", "y_test"} # {}) =>
        (Done("load_data") /\ Done("handle_outliers"))
    /\ "model.pkl" \in written =>
        (Done("load_data") /\ Done("handle_outliers") /\ Done("split_data") /\ Done("mt_load_data"))
    /\ "confusion_matrix.png" \in written => Done("train_model")

C8_Witness ==
    /\ run = 1
    /\ stage = "aborted"
    /\ started = <<"load_data", "handle_outliers", "split_data">>
    /\ completed = <<"load_data", "handle_outliers">>
    /\ written = {"X_train", "X_test"}
    /\ ~modelPkl.exists

\* C10: two runs of split_data on the same normalized dataset with seed 42
\* put every row on the same side: the four artifacts of the second run
\* equal those of the first.
C10_SplitDeterministic ==
    (run >= 2 /\ prev.split /\ Done("split_data")) => processed = prev.files

C10_Witness ==
    /\ run = 2
    /\ prev.split
    /\ Done("split_data")
    /\ Len(df) = 5
    /\ processed = prev.files

-----------------------------------------------------------------------------
(* Claims about the order of validation *)

FixedOrder == <<"SepalLengthCm", "SepalWidthCm", "PetalLengthCm", "PetalWidthCm">>

\* The field named n does not parse, or parses and fails x < min or x > max.
Invalid(f, n) ==
    LET p == ParseFloat(FormGet(f, n))
    IN  ~p.ok \/ FLt(p.x, FeatureConfig[n].min) \/ FLt(FeatureConfig[n].max, p.x)

\* The error the field named n yields on its own.
ErrorOf(f, n) ==
    LET p == ParseFloat(FormGet(f, n))
    IN  IF p.ok THEN RangeError(FeatureConfig[n], p.x) ELSE ParseError(FeatureConfig[n])

FirstInvalid(f) ==
    CHOOSE i \in 1..4 :
        /\ Invalid(f, FixedOrder[i])
        /\ \A j \in 1..(i - 1) : ~Invalid(f, FixedOrder[j])

-----------------------------------------------------------------------------
(* Claims about the confusion matrix *)

Alphabetical == <<"Iris-setosa", "Iris-versicolor", "Iris-virginica">>

\* The species of the test rows, in test order.
TestLabels == [k \in 1..Len(loaded.y_test) |-> loaded.y_test[k].Species]

IsTestLabel(c) == \E k \in 1..Len(TestLabels) : TestLabels[k] = c

\* The distinct labels of the test set in sorted order.
ObservedLabels == SelectSeq(Alphabetical, IsTestLabel)

\* C12: the saved confusion matrix has one row and one column per distinct
\* label of the test set, in sorted order; entry (i, j) is the number of
\* test rows of actual label i predicted as label j; and both axes carry
\* exactly those labels as ticks, whatever the model predicted.
C12_MatrixIsOverTestLabels ==
    stage = "finished" =>
        LET cm == cmPng.data.cm
            n == Len(ObservedLabels)
        IN  /\ cmPng.data.xticklabels = ObservedLabels
            /\ cmPng.data.yticklabels = ObservedLabels
            /\ Len(cm) = n
            /\ \A i \in 1..n : Len(cm[i]) = n
            /\ \A i \in 1..n : \A j \in 1..n :
                cm[i][j] = Cardinality({k \in 1..Len(TestLabels) :
                                /\ TestLabels[k] = ObservedLabels[i]
                                /\ y_pred[k] = ObservedLabels[j]})

-----------------------------------------------------------------------------
(* Claims about what handle_outliers leaves alone *)

\* The bounds and the median of the SepalWidthCm column as the CSV holds it.
OrigBounds ==
    LET q1 == Quantile(OrigColumn, 1)
        q3 == Quantile(OrigColumn, 3)
    IN  [lower |-> q1 - (3 * (q3 - q1)) \div 2,
         upper |-> q3 + (3 * (q3 - q1)) \div 2,
         median |-> Median(OrigColumn)]

Within(x, b) == b.lower <= x /\ x <= b.upper

\* The rows with each out-of-bound SepalWidthCm cell, taken row by row,
\* set to the median.
RowByRow(rows, b) ==
    [j \in 1..Len(rows) |->
        IF Within(rows[j].SepalWidthCm, b)
        THEN rows[j]
        ELSE [rows[j] EXCEPT !.SepalWidthCm = b.median]]

\* C13: from load_data on, the frame has the CSV's rows in the CSV's order,
\* every column other than SepalWidthCm as the CSV holds it, and every
\* SepalWidthCm cell that was within the bounds as the CSV holds it; when
\* handle_outliers has returned, the frame is the CSV with its out-of-bound
\* SepalWidthCm cells replaced row by row.
C13_OnlyOutOfBoundCellsChange ==
    Done("load_data") =>
        /\ Len(df) = Len(csv.rows)
        /\ \A j \in 1..Len(df) :
            /\ df[j].index = csv.rows[j].index
            /\ df[j].Species = csv.rows[j].Species
            /\ df[j].SepalLengthCm = csv.rows[j].SepalLengthCm
            /\ df[j].PetalLengthCm = csv.rows[j].PetalLengthCm
            /\ df[j].PetalWidthCm = csv.rows[j].PetalWidthCm
        /\ LET b == OrigBounds
           IN  /\ \A j \in 1..Len(df) :
                    Within(csv.rows[j].SepalWidthCm, b) =>
                        df[j].SepalWidthCm = csv.rows[j].SepalWidthCm
               /\ Done("handle_outliers") => df = RowByRow(csv.rows, b)

C13_Witness ==
    /\ stage = "split_data"
    /\ Done("handle_outliers")
    /\ LET b == OrigBounds
       IN  /\ df = RowByRow(csv.rows, b)
           /\ \E j, h, k \in 1..Len(df) :
                /\ j # h
                /\ ~Within(OrigColumn[j], b)
                /\ OrigColumn[h] = OrigColumn[j]
                /\ df[j].SepalWidthCm # OrigColumn[j]
                /\ df[h].SepalWidthCm # OrigColumn[h]
                /\ df[j].PetalWidthCm = OrigColumn[j]
                /\ Within(OrigColumn[k], b)
                /\ df[k] = csv.rows[k]

====
